---- MODULE Spec2Model ----
(***************************************************************************)
(* A model of the two claude_exec.py launchers:                            *)
(*   claude-collab/scripts/claude_exec.py  (variant "collab", direct only) *)
(*   dev-workflow/scripts/claude_exec.py   (variant "dev", direct mode and *)
(*                                          task-file mode)                *)
(* Strings are TLA+ strings, manipulated with Len, SubSeq and \o.  Python's *)
(* None is the sentinel string None, which no option value equals.         *)
(***************************************************************************)
EXTENDS Integers, Sequences, FiniteSets, TLC

VARIABLES variant, args, env, planFile, pc, cmd, launches, result,
          stdout, stderr, exitStatus, target, tmp, wpc, before, pending,
          failedAt, unlinkFailed, announced, finalized, observed

vars == <<variant, args, env, planFile, pc, cmd, launches, result,
          stdout, stderr, exitStatus, target, tmp, wpc, before, pending,
          failedAt, unlinkFailed, announced, finalized, observed>>

----------------------------------------------------------------------------
(* Bounds of the model.                                                    *)

\* max_turns is drawn from 0..MaxTurns (or is None).
MaxTurns == 2

\* The child's exit code is drawn from 0..MaxExitCode.
MaxExitCode == 2

----------------------------------------------------------------------------
(* Program constants.                                                      *)

EXIT_TIMEOUT == 124

EXIT_NOT_FOUND == 127

\* ArgumentParser.error() ends the process with status 2.
EXIT_USAGE == 2

\* sys.exit(1) of the plan-file handlers, and the interpreter's status for an
\* uncaught exception.
EXIT_FAILURE == 1

DefaultTimeoutCollab == 300

DefaultTimeoutDev == 600

----------------------------------------------------------------------------
(* Python values.                                                          *)

None == "<None>"

\* Python truthiness of an Optional[str]: None and "" are falsy.
Truthy(s) == s # None /\ s # ""

\* An Optional number is a record: NoInt is None, IntOpt(n) the number n.
NoInt == [set |-> FALSE, val |-> 0]

IntOpt(n) == [set |-> TRUE, val |-> n]

TruthyInt(o) == o.set /\ o.val # 0

Digit(d) == SubSeq("0123456789", d + 1, d + 1)

RECURSIVE NatToStr(_)
NatToStr(n) == IF n < 10 THEN Digit(n) ELSE NatToStr(n \div 10) \o Digit(n % 10)

\* str(int)
IntToStr(n) == IF n < 0 THEN "-" \o NatToStr(-n) ELSE NatToStr(n)

\* str(float) of a value with one decimal digit, held in tenths: 20 is 2.0.
FloatToStr(t) == IntToStr(t \div 10) \o "." \o Digit(t % 10)

IsSpace(c) == c \in {" ", "\t", "\n", "\r"}

\* str.strip()
RECURSIVE LStrip(_)
LStrip(s) == IF Len(s) > 0 /\ IsSpace(SubSeq(s, 1, 1)) THEN LStrip(Tail(s)) ELSE s

RECURSIVE RStrip(_)
RStrip(s) ==
    IF Len(s) > 0 /\ IsSpace(SubSeq(s, Len(s), Len(s)))
    THEN RStrip(SubSeq(s, 1, Len(s) - 1))
    ELSE s

Strip(s) == RStrip(LStrip(s))

\* str.split(","): always at least one piece, empty pieces kept.
RECURSIVE SplitFrom(_, _, _)
SplitFrom(s, i, piece) ==
    IF i > Len(s) THEN <<piece>>
    ELSE IF SubSeq(s, i, i) = "," THEN <<piece>> \o SplitFrom(s, i + 1, "")
    ELSE SplitFrom(s, i + 1, piece \o SubSeq(s, i, i))

SplitComma(s) == SplitFrom(s, 1, "")

StripAll(pieces) == [i \in 1..Len(pieces) |-> Strip(pieces[i])]

----------------------------------------------------------------------------
(* build_command                                                           *)

is_third_party_configured(e) ==
    Truthy(e.ANTHROPIC_BASE_URL) \/ Truthy(e.ANTHROPIC_API_KEY)

SessionPart(a) ==
    IF Truthy(a.resume) THEN <<"--resume", a.resume>>
    ELSE IF Truthy(a.session) THEN <<"--session-id", a.session>>
    ELSE <<>>

ContinuePart(a) == IF a.continue_session THEN <<"--continue">> ELSE <<>>

PermissionPart(a) ==
    IF a.dangerously_skip_permissions THEN <<"--dangerously-skip-permissions">>
    ELSE IF Truthy(a.permission_mode) THEN <<"--permission-mode", a.permission_mode>>
    ELSE <<>>

\* The dev launcher passes the rule string as one token; the collab launcher
\* splits it on commas and strips each piece.
ToolRuleTokens(v, rules) ==
    IF v = "dev" THEN <<rules>> ELSE StripAll(SplitComma(rules))

AllowedToolsPart(v, a) ==
    IF Truthy(a.allowed_tools)
    THEN <<"--allowedTools">> \o ToolRuleTokens(v, a.allowed_tools)
    ELSE <<>>

DisallowedToolsPart(v, a) ==
    IF Truthy(a.disallowed_tools)
    THEN <<"--disallowedTools">> \o ToolRuleTokens(v, a.disallowed_tools)
    ELSE <<>>

ModelPart(a, e) ==
    IF Truthy(a.model) /\ ~is_third_party_configured(e)
    THEN <<"--model", a.model>>
    ELSE <<>>

LimitsPart(a) ==
    (IF TruthyInt(a.max_turns) THEN <<"--max-turns", IntToStr(a.max_turns.val)>> ELSE <<>>)
    \o (IF TruthyInt(a.max_budget)
        THEN <<"--max-budget-usd", FloatToStr(a.max_budget.val)>> ELSE <<>>)

OutputFormatPart(a) ==
    IF Truthy(a.output_format) THEN <<"--output-format", a.output_format>> ELSE <<>>

SystemPromptPart(a) ==
    IF Truthy(a.append_system_prompt)
    THEN <<"--append-system-prompt", a.append_system_prompt>>
    ELSE <<>>

RECURSIVE AddDirPairs(_)
AddDirPairs(dirs) ==
    IF dirs = <<>> THEN <<>>
    ELSE <<"--add-dir", Strip(Head(dirs))>> \o AddDirPairs(Tail(dirs))

AddDirPart(a) ==
    IF Truthy(a.add_dir) THEN AddDirPairs(SplitComma(a.add_dir)) ELSE <<>>

McpPart(a) ==
    IF Truthy(a.mcp_config) THEN <<"--mcp-config", a.mcp_config>> ELSE <<>>

\* The tail of the vector: the dev launcher ends the options with "--".
PromptPart(v, a) ==
    IF v = "dev" THEN <<"--", a.prompt>> ELSE <<a.prompt>>

build_command(v, a, e) ==
    <<"claude", "-p">>
    \o SessionPart(a) \o ContinuePart(a) \o PermissionPart(a)
    \o AllowedToolsPart(v, a) \o DisallowedToolsPart(v, a)
    \o ModelPart(a, e) \o LimitsPart(a) \o OutputFormatPart(a)
    \o SystemPromptPart(a) \o AddDirPart(a) \o McpPart(a)
    \o PromptPart(v, a)

----------------------------------------------------------------------------
(* Task records and their JSON text.                                       *)
(* A dict is a sequence of <<key, value>> pairs in insertion order.  A file *)
(* is a sequence of lexical tokens <<kind, text>>: <<"{", "">>, one         *)
(* <<key, json-text-of-value>> per member, <<"}", "">>, <<"\n", "">>.       *)

Has(d, k) == \E i \in 1..Len(d) : d[i][1] = k

Get(d, k) == d[CHOOSE i \in 1..Len(d) : d[i][1] = k][2]

\* dict[k] = v on a dict without the key k
Put(d, k, v) == Append(d, <<k, v>>)

\* json.dumps of a str: quotes around it, with ", \ and newline escaped.
RECURSIVE JsonEscape(_)
JsonEscape(s) ==
    IF s = "" THEN ""
    ELSE LET c == SubSeq(s, 1, 1)
         IN  (CASE c = "\"" -> "\\\""
                [] c = "\\" -> "\\\\"
                [] c = "\n" -> "\\n"
                [] OTHER -> c) \o JsonEscape(Tail(s))

JsonString(s) == "\"" \o JsonEscape(s) \o "\""

IntKeys == {"pid", "exit_code"}

JsonValue(k, v) == IF k \in IntKeys THEN IntToStr(v) ELSE JsonString(v)

OpenTok == <<"{", "">>

CloseTok == <<"}", "">>

NewlineTok == <<"\n", "">>

\* json.dump(data, f, indent=2): the tokens of the object, without the newline.
JsonDump(d) ==
    <<OpenTok>> \o [i \in 1..Len(d) |-> <<d[i][1], JsonValue(d[i][1], d[i][2])>>]
    \o <<CloseTok>>

\* What atomic_write_json puts in the file: the object and a trailing newline.
Serialized(d) == JsonDump(d) \o <<NewlineTok>>

\* A path that names no file.
Absent == << <<"<absent>", "">> >>

\* json.load, as a reader of the task file applies it: the inverse of
\* JsonDump, or Invalid when the text is not one whole object.
Invalid == << <<"<invalid>", "">> >>

RECURSIVE JsonUnescape(_)
JsonUnescape(s) ==
    IF s = "" THEN ""
    ELSE IF SubSeq(s, 1, 1) = "\\" /\ Len(s) >= 2
    THEN (IF SubSeq(s, 2, 2) = "n" THEN "\n" ELSE SubSeq(s, 2, 2))
         \o JsonUnescape(SubSeq(s, 3, Len(s)))
    ELSE SubSeq(s, 1, 1) \o JsonUnescape(Tail(s))

DigitVal(c) == CHOOSE d \in 0..9 : Digit(d) = c

RECURSIVE StrToNat(_)
StrToNat(s) ==
    IF Len(s) = 1 THEN DigitVal(s)
    ELSE 10 * StrToNat(SubSeq(s, 1, Len(s) - 1)) + DigitVal(SubSeq(s, Len(s), Len(s)))

StrToInt(s) == IF SubSeq(s, 1, 1) = "-" THEN 0 - StrToNat(Tail(s)) ELSE StrToNat(s)

ParseValue(t) ==
    IF SubSeq(t, 1, 1) = "\"" THEN JsonUnescape(SubSeq(t, 2, Len(t) - 1)) ELSE StrToInt(t)

\* The tokens of a well-formed document: an object, then optional whitespace.
WellFormed(c) ==
    /\ c # Absent
    /\ Len(c) >= 2
    /\ c[1] = OpenTok
    /\ LET n == IF c[Len(c)] = NewlineTok THEN Len(c) - 1 ELSE Len(c)
       IN  /\ n >= 2
           /\ c[n] = CloseTok
           /\ \A i \in 2..(n - 1) : c[i][1] \notin {"{", "}", "\n"}

JsonLoad(c) ==
    IF ~WellFormed(c) THEN Invalid
    ELSE LET n == IF c[Len(c)] = NewlineTok THEN Len(c) - 1 ELSE Len(c)
         IN  [i \in 1..(n - 2) |-> <<c[i + 1][1], ParseValue(c[i + 1][2])>>]

----------------------------------------------------------------------------
(* The launcher's inputs.                                                  *)

DefaultTimeout(v) == IF v = "dev" THEN DefaultTimeoutDev ELSE DefaultTimeoutCollab

\* The parsed options when only the prompt is given.
DefaultArgs(v) ==
    [prompt |-> None, resume |-> None, session |-> None,
     continue_session |-> FALSE, dangerously_skip_permissions |-> FALSE,
     permission_mode |-> None, allowed_tools |-> None, disallowed_tools |-> None,
     model |-> None, max_turns |-> NoInt, max_budget |-> NoInt,
     output_format |-> None, append_system_prompt |-> None, add_dir |-> None,
     mcp_config |-> None, timeout |-> DefaultTimeout(v),
     output |-> None, plan_file |-> None]

NoEnv == [ANTHROPIC_BASE_URL |-> None, ANTHROPIC_API_KEY |-> None]

\* The session group is mutually exclusive: at most one of the three is set.
SessionChoices ==
    { [resume |-> None, session |-> None, continue_session |-> FALSE],
      [resume |-> "r-1", session |-> None, continue_session |-> FALSE],
      [resume |-> None, session |-> "s-1", continue_session |-> FALSE],
      [resume |-> None, session |-> None, continue_session |-> TRUE] }

\* The permission group is mutually exclusive.
PermissionChoices ==
    { [permission_mode |-> None, dangerously_skip_permissions |-> FALSE],
      [permission_mode |-> "plan", dangerously_skip_permissions |-> FALSE],
      [permission_mode |-> None, dangerously_skip_permissions |-> TRUE] }

\* The plan file on disk: absent, unreadable, not text, or holding text.
PlanFileStates ==
    { [state |-> "missing", text |-> ""], [state |-> "unreadable", text |-> ""],
      [state |-> "undecodable", text |-> ""],
      [state |-> "ok", text |-> ""], [state |-> "ok", text |-> "do the plan"] }

NoPlanFile == [state |-> "missing", text |-> ""]

\* What subprocess.run gives: a CompletedProcess, or one of its exceptions.
ExitCodes == 0..MaxExitCode

ChildStdouts == {"", "hello\n"}

ChildStderrs == {"", "warn: \"x\"\n"}

Completed ==
    [kind : {"exited"}, returncode : ExitCodes, stdout : ChildStdouts,
     stderr : ChildStderrs]

Raised(k) == [kind |-> k, returncode |-> 0, stdout |-> "", stderr |-> ""]

\* TimeoutExpired, FileNotFoundError, and any other OSError of the launch
\* (PermissionError: the binary is found and may not be executed).
Outcomes ==
    Completed \cup {Raised("timeout"), Raised("not_found"), Raised("os_error")}

NoResult == Raised("none")

\* time.strftime("%Y-%m-%dT%H:%M:%SZ", time.gmtime())
Times == {"2026-01-01T00:00:00Z", "2026-01-01T00:00:09Z"}

\* os.getpid()
Pid == 4242

\* A task file left by an earlier invocation.
OldRecord ==
    << <<"status", "completed">>, <<"output", "old">>, <<"exit_code", 0>>,
       <<"completed_at", "2025-12-31T23:59:59Z">> >>

----------------------------------------------------------------------------
(* The messages the launcher prints.                                       *)

PlanNotFoundMsg(a) == "ERROR: Plan file not found: " \o a.plan_file \o "\n"

PlanUnreadableMsg == "ERROR: Cannot read plan file: [Errno 13] Permission denied\n"

Traceback(e) == "Traceback (most recent call last):\n" \o e \o "\n"

UsageMsg(m) == "usage: claude_exec.py [-h] ...\nclaude_exec.py: error: " \o m \o "\n"

TimeoutMsgDirect(a) ==
    "ERROR: Claude Code did not respond within " \o IntToStr(a.timeout)
    \o "s. Consider increasing --timeout for complex tasks.\n"

NotFoundMsgDirect ==
    "ERROR: 'claude' command not found. "
    \o "Install Claude Code CLI: npm install -g @anthropic-ai/claude-code\n"

TimeoutMsgFile(a) == "Claude Code did not respond within " \o IntToStr(a.timeout) \o "s"

NotFoundMsgFile == "'claude' command not found"

\* os.path.abspath(args.output)
AbsPath(p) == "/work/" \o p

----------------------------------------------------------------------------
(* main: options, plan file, prompt check, build_command, dispatch.        *)

Exit(code) == pc' = "done" /\ exitStatus' = code

\* The collab launcher's positional prompt is required: parse_args() ends in
\* parser.error() without it.
ParseArgsError ==
    /\ pc = "start"
    /\ variant = "collab"
    /\ args.prompt = None
    /\ stderr' = stderr \o UsageMsg("the following arguments are required: prompt")
    /\ Exit(EXIT_USAGE)
    /\ UNCHANGED <<variant, args, env, planFile, cmd, launches, result, stdout,
                   target, tmp, wpc, before, pending, failedAt, unlinkFailed,
                   announced, finalized, observed>>

\* The dev launcher's open() of the plan file fails.
PlanFileError ==
    /\ pc = "start"
    /\ variant = "dev"
    /\ Truthy(args.plan_file)
    /\ planFile.state # "ok"
    /\ stderr' = stderr \o
         (CASE planFile.state = "missing" -> PlanNotFoundMsg(args)
            [] planFile.state = "unreadable" -> PlanUnreadableMsg
            [] OTHER -> Traceback("UnicodeDecodeError"))
    /\ Exit(EXIT_FAILURE)
    /\ UNCHANGED <<variant, args, env, planFile, cmd, launches, result, stdout,
                   target, tmp, wpc, before, pending, failedAt, unlinkFailed,
                   announced, finalized, observed>>

\* args.prompt after the plan file, when it is read, has replaced it.
ResolvedPrompt(v, a, pf) ==
    IF v = "dev" /\ Truthy(a.plan_file) THEN pf.text ELSE a.prompt

PlanReadable == ~(variant = "dev" /\ Truthy(args.plan_file)) \/ planFile.state = "ok"

\* Mutant of PromptRequired: only a prompt that is None is refused, an empty
\* one goes through.
PromptRequiredNoneOnly(v, prompt) == v = "dev" /\ prompt = None

\* The dev launcher's own check: "if not args.prompt: parser.error(...)".
PromptRequired(v, prompt) == v = "dev" /\ ~Truthy(prompt)

PromptMissingError ==
    /\ pc = "start"
    /\ PlanReadable
    /\ PromptRequired(variant, ResolvedPrompt(variant, args, planFile))
    /\ args' = [args EXCEPT !.prompt = ResolvedPrompt(variant, args, planFile)]
    /\ stderr' = stderr \o
         UsageMsg("prompt is required (provide as argument or via --plan-file)")
    /\ Exit(EXIT_USAGE)
    /\ UNCHANGED <<variant, env, planFile, cmd, launches, result, stdout,
                   target, tmp, wpc, before, pending, failedAt, unlinkFailed,
                   announced, finalized, observed>>

\* The prompt is there: build the command and go to the runner.
BuildAndDispatch ==
    /\ pc = "start"
    /\ PlanReadable
    /\ ~(variant = "collab" /\ args.prompt = None)
    /\ ~PromptRequired(variant, ResolvedPrompt(variant, args, planFile))
    /\ args' = [args EXCEPT !.prompt = ResolvedPrompt(variant, args, planFile)]
    /\ cmd' = build_command(variant, args', env)
    /\ pc' = IF variant = "dev" /\ Truthy(args.output) THEN "announce" ELSE "direct"
    /\ UNCHANGED <<variant, env, planFile, launches, result, stdout, stderr,
                   exitStatus, target, tmp, wpc, before, pending, failedAt,
                   unlinkFailed, announced, finalized, observed>>

----------------------------------------------------------------------------
(* Direct mode: _run_direct, and the tail of the collab launcher's main.   *)

\* print(text, end="") when text is not empty
Relay(stream, text) == IF text # "" THEN stream \o text ELSE stream

DirectStdout(r) == IF r.kind = "exited" THEN Relay(stdout, r.stdout) ELSE stdout

DirectStderr(r, a) ==
    CASE r.kind = "exited" -> Relay(stderr, r.stderr)
      [] r.kind = "timeout" -> stderr \o TimeoutMsgDirect(a)
      [] r.kind = "not_found" -> stderr \o NotFoundMsgDirect
      [] OTHER -> stderr \o Traceback("PermissionError")

\* Mutant of DirectExit: a child that exits leaves the launcher's status 0.
DirectExitIgnoresChild(r) ==
    CASE r.kind = "timeout" -> EXIT_TIMEOUT
      [] r.kind = "not_found" -> EXIT_NOT_FOUND
      [] r.kind = "exited" -> 0
      [] OTHER -> EXIT_FAILURE

DirectExit(r) ==
    CASE r.kind = "exited" -> r.returncode
      [] r.kind = "timeout" -> EXIT_TIMEOUT
      [] r.kind = "not_found" -> EXIT_NOT_FOUND
      [] OTHER -> EXIT_FAILURE

RunDirect ==
    /\ pc = "direct"
    /\ \E r \in Outcomes :
        /\ result' = r
        /\ launches' = launches + 1
        /\ stdout' = DirectStdout(r)
        /\ stderr' = DirectStderr(r, args)
        /\ Exit(DirectExit(r))
    /\ UNCHANGED <<variant, args, env, planFile, cmd, target, tmp, wpc, before,
                   pending, failedAt, unlinkFailed, announced, finalized, observed>>

----------------------------------------------------------------------------
(* atomic_write_json(path, data): mkstemp, write, close, os.replace; on a   *)
(* failure inside the try block, unlink the temporary file and re-raise.   *)
(* Its caller catches nothing, so a failure ends the launcher, uncaught.   *)

Writing == pc \in {"write_running", "write_final"}

\* An exception that leaves main: the interpreter prints it and exits 1.
Uncaught(e) == stderr' = stderr \o Traceback(e) /\ Exit(EXIT_FAILURE)

\* tempfile.mkstemp(dir=dir_name, suffix=".tmp") makes an empty file.
Mkstemp ==
    /\ Writing /\ wpc = "call"
    /\ tmp' = <<>>
    /\ before' = target
    /\ wpc' = "open"
    /\ UNCHANGED <<variant, args, env, planFile, pc, cmd, launches, result,
                   stdout, stderr, exitStatus, target, pending, failedAt,
                   unlinkFailed, announced, finalized, observed>>

\* mkstemp raises before the try block is entered: nothing to clean up.
MkstempFail ==
    /\ Writing /\ wpc = "call"
    /\ failedAt' = "mkstemp"
    /\ wpc' = "raised"
    /\ before' = target
    /\ Uncaught("OSError")
    /\ UNCHANGED <<variant, args, env, planFile, cmd, launches, result, stdout,
                   target, tmp, pending, unlinkFailed, announced, finalized,
                   observed>>

\* Mutant of WriteChunk: the text is written to the path itself, not to the
\* temporary file.
WriteChunkInPlace ==
    /\ Writing /\ wpc = "open"
    /\ \E n \in 1..(Len(Serialized(pending)) - 1) :
         target' = SubSeq(Serialized(pending), 1, n)
    /\ UNCHANGED <<variant, args, env, planFile, pc, cmd, launches, result,
                   stdout, stderr, exitStatus, tmp, wpc, before, pending,
                   failedAt, unlinkFailed, announced, finalized, observed>>

\* json.dump and f.write("\n") fill the buffer; the file holds what has been
\* flushed so far, a prefix of the text.
WriteChunk ==
    /\ Writing /\ wpc = "open"
    /\ \E n \in (Len(tmp) + 1)..Len(Serialized(pending)) :
         tmp' = SubSeq(Serialized(pending), 1, n)
    /\ UNCHANGED <<variant, args, env, planFile, pc, cmd, launches, result,
                   stdout, stderr, exitStatus, target, wpc, before, pending,
                   failedAt, unlinkFailed, announced, finalized, observed>>

\* Leaving the with block closes the file, which flushes the rest.
Close ==
    /\ Writing /\ wpc = "open"
    /\ tmp' = Serialized(pending)
    /\ wpc' = "closed"
    /\ UNCHANGED <<variant, args, env, planFile, pc, cmd, launches, result,
                   stdout, stderr, exitStatus, target, before, pending,
                   failedAt, unlinkFailed, announced, finalized, observed>>

\* Serializing, writing or closing raises (a full disk, an I/O error).
WriteFail ==
    /\ Writing /\ wpc = "open"
    /\ \E step \in {"write", "close"} : failedAt' = step
    /\ wpc' = "cleanup"
    /\ UNCHANGED <<variant, args, env, planFile, pc, cmd, launches, result,
                   stdout, stderr, exitStatus, target, tmp, before, pending,
                   unlinkFailed, announced, finalized, observed>>

\* os.replace(tmp_path, path): the rename puts the whole file under the path.
Replace ==
    /\ Writing /\ wpc = "closed"
    /\ target' = tmp
    /\ tmp' = Absent
    /\ wpc' = "returned"
    /\ pc' = IF pc = "write_running" THEN "exec" ELSE "report"
    /\ announced' = TRUE
    /\ finalized' = (pc = "write_final")
    /\ UNCHANGED <<variant, args, env, planFile, cmd, launches, result, stdout,
                   stderr, exitStatus, before, pending, failedAt, unlinkFailed,
                   observed>>

ReplaceFail ==
    /\ Writing /\ wpc = "closed"
    /\ failedAt' = "replace"
    /\ wpc' = "cleanup"
    /\ UNCHANGED <<variant, args, env, planFile, pc, cmd, launches, result,
                   stdout, stderr, exitStatus, target, tmp, before, pending,
                   unlinkFailed, announced, finalized, observed>>

\* Mutant of Cleanup: the failure is re-raised and the temporary file left.
CleanupWithoutUnlink ==
    /\ Writing /\ wpc = "cleanup"
    /\ tmp' = tmp /\ unlinkFailed' = FALSE
    /\ wpc' = "raised"
    /\ Uncaught("OSError")
    /\ UNCHANGED <<variant, args, env, planFile, cmd, launches, result, stdout,
                   target, before, pending, failedAt, announced, finalized,
                   observed>>

\* except BaseException: os.unlink(tmp_path), an OSError of it passed over;
\* then raise.
Cleanup ==
    /\ Writing /\ wpc = "cleanup"
    /\ \/ tmp' = Absent /\ unlinkFailed' = FALSE
       \/ tmp' = tmp /\ unlinkFailed' = TRUE
    /\ wpc' = "raised"
    /\ Uncaught("OSError")
    /\ UNCHANGED <<variant, args, env, planFile, cmd, launches, result, stdout,
                   target, before, pending, failedAt, announced, finalized,
                   observed>>

----------------------------------------------------------------------------
(* Task-file mode: _run_with_output_file.                                  *)

\* session_id = args.resume or args.session or None
SessionId(a) ==
    IF Truthy(a.resume) THEN a.resume
    ELSE IF Truthy(a.session) THEN a.session
    ELSE None

WithSession(d, a) ==
    IF Truthy(SessionId(a)) THEN Put(d, "session_id", SessionId(a)) ELSE d

RunningRecord(a, t) ==
    WithSession(<< <<"status", "running">>, <<"started_at", t>>, <<"pid", Pid>> >>, a)

TimeoutRecord(a, t) ==
    << <<"status", "timeout">>, <<"error", TimeoutMsgFile(a)>>,
       <<"exit_code", EXIT_TIMEOUT>>, <<"completed_at", t>> >>

NotFoundRecord(t) ==
    << <<"status", "error">>, <<"error", NotFoundMsgFile>>,
       <<"exit_code", EXIT_NOT_FOUND>>, <<"completed_at", t>> >>

\* Mutant of ExitStatusTag: every child that exits counts as completed.
ExitStatusTagAlwaysCompleted(r) == "completed"

ExitStatusTag(r) == IF r.returncode = 0 THEN "completed" ELSE "error"

WithError(d, r) == IF r.stderr # "" THEN Put(d, "error", r.stderr) ELSE d

ExitedRecord(r, a, t) ==
    WithSession(
        WithError(<< <<"status", ExitStatusTag(r)>>, <<"output", r.stdout>>,
                     <<"exit_code", r.returncode>>, <<"completed_at", t>> >>, r),
        a)

FinalRecord(r, a, t) ==
    CASE r.kind = "timeout" -> TimeoutRecord(a, t)
      [] r.kind = "not_found" -> NotFoundRecord(t)
      [] OTHER -> ExitedRecord(r, a, t)

\* Phase 1: the "running" record.
Announce ==
    /\ pc = "announce"
    /\ \E t \in Times : pending' = RunningRecord(args, t)
    /\ pc' = "write_running"
    /\ wpc' = "call"
    /\ UNCHANGED <<variant, args, env, planFile, cmd, launches, result, stdout,
                   stderr, exitStatus, target, tmp, before, failedAt,
                   unlinkFailed, announced, finalized, observed>>

\* Phase 2: subprocess.run, and the terminal record of what it gave.
Execute ==
    /\ pc = "exec"
    /\ \E r \in Outcomes \ {Raised("os_error")}, t \in Times :
        /\ result' = r
        /\ pending' = FinalRecord(r, args, t)
    /\ launches' = launches + 1
    /\ pc' = "write_final"
    /\ wpc' = "call"
    /\ UNCHANGED <<variant, args, env, planFile, cmd, stdout, stderr,
                   exitStatus, target, tmp, before, failedAt, unlinkFailed,
                   announced, finalized, observed>>

\* subprocess.run raises an OSError that is not FileNotFoundError: neither
\* except clause takes it.
ExecuteOSError ==
    /\ pc = "exec"
    /\ result' = Raised("os_error")
    /\ launches' = launches + 1
    /\ Uncaught("PermissionError")
    /\ UNCHANGED <<variant, args, env, planFile, cmd, stdout, target, tmp, wpc,
                   before, pending, failedAt, unlinkFailed, announced,
                   finalized, observed>>

\* The status the launcher ends with once the terminal record is written:
\* sys.exit(124), sys.exit(127), or main returning.
ReportExit(r) ==
    CASE r.kind = "timeout" -> EXIT_TIMEOUT
      [] r.kind = "not_found" -> EXIT_NOT_FOUND
      [] OTHER -> 0

\* print(output_path), then the exit.
Report ==
    /\ pc = "report"
    /\ stdout' = stdout \o AbsPath(args.output) \o "\n"
    /\ Exit(ReportExit(result))
    /\ UNCHANGED <<variant, args, env, planFile, cmd, launches, result, stderr,
                   target, tmp, wpc, before, pending, failedAt, unlinkFailed,
                   announced, finalized, observed>>

----------------------------------------------------------------------------
(* The environment: the launcher is killed; another process reads the file. *)

Crash ==
    /\ pc \notin {"done", "crashed"}
    /\ pc' = "crashed"
    /\ UNCHANGED <<variant, args, env, planFile, cmd, launches, result, stdout,
                   stderr, exitStatus, target, tmp, wpc, before, pending,
                   failedAt, unlinkFailed, announced, finalized, observed>>

\* open(path).read() by a poller: the whole of what the path names now.
Read ==
    /\ Truthy(args.output)
    /\ observed' = target
    /\ observed' # observed
    /\ UNCHANGED <<variant, args, env, planFile, pc, cmd, launches, result,
                   stdout, stderr, exitStatus, target, tmp, wpc, before,
                   pending, failedAt, unlinkFailed, announced, finalized>>

----------------------------------------------------------------------------
(* The launcher run: one invocation from the parsed options to its exit.   *)

RunPrompts == {None, "", "fix the bug"}

RunSessions == {sc \in SessionChoices : ~sc.continue_session}

RunArgs(v) ==
    { [DefaultArgs(v) EXCEPT !.prompt = p, !.resume = sc.resume,
                             !.session = sc.session, !.output = o,
                             !.plan_file = pl] :
        p \in RunPrompts, sc \in RunSessions,
        o \in (IF v = "dev" THEN {None, "task.json"} ELSE {None}),
        pl \in (IF v = "dev" THEN {None, "plan.md"} ELSE {None}) }

Quiet ==
    /\ pc = "start"
    /\ cmd = <<>>
    /\ launches = 0
    /\ result = NoResult
    /\ stdout = ""
    /\ stderr = ""
    /\ exitStatus = -1
    /\ tmp = Absent
    /\ wpc = "idle"
    /\ before = Absent
    /\ pending = <<>>
    /\ failedAt = "none"
    /\ unlinkFailed = FALSE
    /\ announced = FALSE
    /\ finalized = FALSE
    /\ observed = Absent

Init ==
    /\ variant \in {"collab", "dev"}
    /\ args \in RunArgs(variant)
    /\ env = NoEnv
    /\ planFile \in (IF Truthy(args.plan_file) THEN PlanFileStates ELSE {NoPlanFile})
    /\ target \in (IF Truthy(args.output) THEN {Absent, Serialized(OldRecord)}
                   ELSE {Absent})
    /\ Quiet

Next ==
    \/ ParseArgsError
    \/ PlanFileError
    \/ PromptMissingError
    \/ BuildAndDispatch
    \/ RunDirect
    \/ Announce
    \/ Mkstemp
    \/ MkstempFail
    \/ WriteChunk
    \/ Close
    \/ WriteFail
    \/ Replace
    \/ ReplaceFail
    \/ Cleanup
    \/ Execute
    \/ ExecuteOSError
    \/ Report
    \/ Crash
    \/ Read

Spec == Init /\ [][Next]_vars

----------------------------------------------------------------------------
(* build_command over the option combinations the parser lets through.     *)

BuildPrompts == {"fix the bug", "-v", "--"}

ToolRules == {None, "Read", "Read, Edit(src/**)"}

TurnChoices == {NoInt} \cup {IntOpt(n) : n \in 0..MaxTurns}

BudgetChoices == {NoInt, IntOpt(25)}

EnvChoices ==
    { NoEnv,
      [ANTHROPIC_BASE_URL |-> "https://proxy.example", ANTHROPIC_API_KEY |-> None],
      [ANTHROPIC_BASE_URL |-> None, ANTHROPIC_API_KEY |-> "key"] }

BuildArgs(v) ==
    { [DefaultArgs(v) EXCEPT
         !.prompt = p, !.resume = sc.resume, !.session = sc.session,
         !.continue_session = sc.continue_session,
         !.permission_mode = pm.permission_mode,
         !.dangerously_skip_permissions = pm.dangerously_skip_permissions,
         !.allowed_tools = al, !.disallowed_tools = dl, !.model = mo,
         !.max_turns = mt, !.max_budget = mb, !.output_format = of,
         !.append_system_prompt = asp, !.add_dir = ad, !.mcp_config = mc] :
        p \in BuildPrompts, sc \in SessionChoices, pm \in PermissionChoices,
        al \in ToolRules, dl \in {None, "Bash,Write"}, mo \in {None, "sonnet"},
        mt \in TurnChoices, mb \in BudgetChoices, of \in {None, "json"},
        asp \in {None, "Be brief."}, ad \in {None, "../other, /shared/libs"},
        mc \in {None, "mcp.json"} }

BuildInit ==
    /\ variant \in {"collab", "dev"}
    /\ args \in BuildArgs(variant)
    /\ env \in EnvChoices
    /\ planFile = NoPlanFile
    /\ target = Absent
    /\ Quiet

BuildNext == BuildAndDispatch

BuildSpec == BuildInit /\ [][BuildNext]_vars

----------------------------------------------------------------------------
(* Properties.                                                             *)

TaskFileMode == variant = "dev" /\ Truthy(args.output)

DirectMode == ~TaskFileMode

\* A file that holds exactly one serialized record, or no file.
Complete(c) == c = Absent \/ (JsonLoad(c) # Invalid /\ Serialized(JsonLoad(c)) = c)

TerminalStatuses == {"completed", "error", "timeout"}

\* C1: at every step of atomic_write_json, a crash of the writer and a read by
\* another process included, the path names the whole previous content or the
\* whole new record; until the rename it names the previous content.
C1_AtomicVisible ==
    /\ Complete(target)
    /\ Complete(observed)
    /\ wpc \in {"open", "closed", "cleanup", "raised"} => target = before
    /\ wpc = "returned" => target = Serialized(pending)

\* C1 witness: the writer is killed with a partly written temporary file over
\* an earlier record, and a reader has read the path.
C1_Witness ==
    /\ pc = "crashed"
    /\ wpc = "open"
    /\ Len(tmp) > 0 /\ tmp # Serialized(pending)
    /\ before = Serialized(OldRecord)
    /\ observed = target
    /\ target = before

\* C2: once the "running" record is written, every launcher run that ends has
\* put a terminal record in the task file (no write having failed).
C2_TerminalBeforeExit ==
    (pc = "done" /\ announced /\ failedAt = "none")
        => /\ JsonLoad(target) # Invalid
           /\ Get(JsonLoad(target), "status") \in TerminalStatuses

\* C3: after finalization the launcher's exit status is the exit_code of the
\* terminal record it wrote.
C3_ExitMatchesRecord ==
    (pc = "done" /\ finalized) => exitStatus = Get(JsonLoad(target), "exit_code")

\* C4: the terminal record in the task file is a function of the child's
\* outcome, and always has completed_at.
C4_TerminalRecord ==
    finalized =>
        LET d == JsonLoad(target)
        IN  /\ d # Invalid
            /\ Has(d, "completed_at") /\ Get(d, "completed_at") \in Times
            /\ Has(d, "status") /\ Has(d, "exit_code")
            /\ result.kind = "timeout" =>
                 /\ Get(d, "status") = "timeout"
                 /\ Get(d, "exit_code") = EXIT_TIMEOUT
                 /\ Has(d, "error") /\ Get(d, "error") # ""
            /\ result.kind = "not_found" =>
                 /\ Get(d, "status") = "error"
                 /\ Get(d, "exit_code") = EXIT_NOT_FOUND
                 /\ Has(d, "error") /\ Get(d, "error") # ""
            /\ result.kind = "exited" =>
                 /\ Get(d, "exit_code") = result.returncode
                 /\ Has(d, "output") /\ Get(d, "output") = result.stdout
                 /\ Get(d, "status") \in {"completed", "error"}
                 /\ Get(d, "status") = "completed" <=> result.returncode = 0
                 /\ Has(d, "error") <=> result.stderr # ""
                 /\ Has(d, "error") => Get(d, "error") = result.stderr

\* C4 witness: a child that exited nonzero with text on both streams, recorded.
C4_Witness ==
    /\ finalized
    /\ result.kind = "exited"
    /\ result.returncode # 0
    /\ result.stdout # "" /\ result.stderr # ""

PlanUnreadableCase ==
    variant = "dev" /\ Truthy(args.plan_file) /\ planFile.state # "ok"

PromptMissingCase ==
    \/ variant = "collab" /\ args.prompt = None
    \/ variant = "dev" /\ ~Truthy(args.plan_file) /\ args.prompt = None
    \/ variant = "dev" /\ Truthy(args.plan_file) /\ planFile.state = "ok"
         /\ planFile.text = ""

NoWorkDone ==
    /\ launches = 0
    /\ cmd = <<>>
    /\ wpc = "idle" /\ tmp = Absent /\ ~announced
    /\ pc \in {"start", "done", "crashed"}

\* C5 as amended: a missing prompt or an unreadable plan file ends the launcher
\* with a message on standard error, no child and no task file; the status is
\* 1 for the plan file and 2 (the argument parser's) for the missing prompt.
C5_ConfigErrorsTerminal ==
    (PlanUnreadableCase \/ PromptMissingCase) =>
        /\ NoWorkDone
        /\ pc = "done" =>
             /\ stderr # "" /\ stdout = ""
             /\ exitStatus = IF PlanUnreadableCase THEN EXIT_FAILURE ELSE EXIT_USAGE

\* C5 as written: every configuration error ends with status 1.
C5_Original ==
    ((PlanUnreadableCase \/ PromptMissingCase) /\ pc = "done")
        => NoWorkDone /\ stderr # "" /\ exitStatus = 1

\* C5 witness: a plan file that yields an empty prompt has ended the launcher.
C5_Witness ==
    /\ pc = "done"
    /\ variant = "dev" /\ Truthy(args.plan_file)
    /\ planFile.state = "ok" /\ planFile.text = ""
    /\ exitStatus = EXIT_USAGE

\* C6: build_command's vector ends with "--" and then the prompt.
C6_PromptAfterMarker ==
    cmd # <<>> =>
        /\ cmd[Len(cmd)] = args.prompt
        /\ cmd[Len(cmd) - 1] = "--"

\* C7: a tool-rule string is one token, right after its option name.
C7_RulesOneToken ==
    cmd # <<>> =>
        /\ Truthy(args.allowed_tools) =>
             \E i \in 1..(Len(cmd) - 1) :
                 cmd[i] = "--allowedTools" /\ cmd[i + 1] = args.allowed_tools
        /\ Truthy(args.disallowed_tools) =>
             \E i \in 1..(Len(cmd) - 1) :
                 cmd[i] = "--disallowedTools" /\ cmd[i + 1] = args.disallowed_tools

\* The dev launcher alone meets C6 and C7 (BuildSpec).
DevBuildCommandSafe ==
    (variant = "dev" /\ cmd # <<>>) =>
        /\ cmd[Len(cmd)] = args.prompt /\ cmd[Len(cmd) - 1] = "--"
        /\ Truthy(args.allowed_tools) =>
             \E i \in 1..(Len(cmd) - 2) :
                 /\ cmd[i] = "--allowedTools" /\ cmd[i + 1] = args.allowed_tools
                 /\ SubSeq(cmd[i + 2], 1, 2) = "--"
        /\ Truthy(args.disallowed_tools) =>
             \E i \in 1..(Len(cmd) - 2) :
                 /\ cmd[i] = "--disallowedTools" /\ cmd[i + 1] = args.disallowed_tools
                 /\ SubSeq(cmd[i + 2], 1, 2) = "--"

WriteFailedInTry == wpc = "raised" /\ failedAt \in {"write", "close", "replace"}

\* C8 as amended: a failure after the temporary file was made is propagated
\* with the path still naming its previous content, and the temporary file is
\* gone unless its unlink failed too; a call that returns leaves none.
C8_CleanupOnFailure ==
    /\ WriteFailedInTry =>
         /\ target = before
         /\ pc = "done" /\ exitStatus = EXIT_FAILURE /\ stderr # ""
         /\ ~unlinkFailed => tmp = Absent
    /\ wpc = "returned" => tmp = Absent

\* C8 as written: after any failed call the temporary file is deleted.
C8_Original ==
    /\ WriteFailedInTry => target = before /\ pc = "done" /\ tmp = Absent
    /\ wpc = "returned" => tmp = Absent

\* C8 witness: the rename failed over an earlier record and the temporary
\* file was unlinked.
C8_Witness ==
    /\ wpc = "raised" /\ failedAt = "replace"
    /\ ~unlinkFailed /\ tmp = Absent
    /\ target = Serialized(OldRecord)

\* C9: direct mode launches the child once, and the launcher's streams and
\* exit status are those of that one attempt.
C9_DirectSingleAttempt ==
    DirectMode =>
        /\ launches <= 1
        /\ wpc = "idle" /\ target = Absent
        /\ (pc = "done" /\ launches = 1) =>
             /\ result.kind = "exited" =>
                  /\ stdout = result.stdout
                  /\ stderr = result.stderr
                  /\ exitStatus = result.returncode
             /\ result.kind = "timeout" =>
                  stdout = "" /\ stderr # "" /\ exitStatus = EXIT_TIMEOUT
             /\ result.kind = "not_found" =>
                  stdout = "" /\ stderr # "" /\ exitStatus = EXIT_NOT_FOUND

\* C9 witness: the tool was not found in direct mode.
C9_Witness ==
    /\ DirectMode /\ pc = "done" /\ launches = 1
    /\ result.kind = "not_found"
    /\ exitStatus = EXIT_NOT_FOUND

\* C10: with a session identifier in the options, every record the
\* invocation puts in the task file has it as session_id.
C10_SessionInEveryRecord ==
    (TaskFileMode /\ Truthy(SessionId(args)) /\ announced) =>
        /\ Has(JsonLoad(target), "session_id")
        /\ Get(JsonLoad(target), "session_id") = SessionId(args)

====
